---- MODULE Spec2Model ----
(***************************************************************************)
(* Review collection back end: subscription entitlement checks, the        *)
(* AI-enhancement workflow of a review, the usage ledger and QR scan       *)
(* tracking, modelled from the services, middleware and route handlers.    *)
(*                                                                         *)
(* Every awaited datastore statement is one atomic step.  A request is a   *)
(* process that moves from statement to statement; other requests          *)
(* interleave between its steps.  A statement's outcome (the datastore     *)
(* answering or rejecting, the generative-text call answering, failing or  *)
(* answering with an empty text) is an input of the step; each             *)
(* specification states which outcomes its environment produces.           *)
(***************************************************************************)
EXTENDS Integers, FiniteSets, Sequences, TLC

\* ------------------------------------------------------------------ bounds
MaxScanCalls == 3
MaxReviews == 10
MaxEnhanced == 7
MaxFlowReviews == 2
MaxMonth == 1
MaxWords == 4

\* ------------------------------------------------------------ input sets
Procs == {"p1", "p2"}
QRCodes == {"q1", "q2"}
Business == {"b1", "b2"}
\* a business id that names no Business row
NoSuchBusiness == "b0"
\* req.body.businessId / req.params.businessId left out of the request
Absent == "absent"

VARIABLES
    qr,         \* QRCode rows: code id -> [exists, scansCount, title, visual options, qrCodeUrl, qrImageUrl]
    qrScans,    \* QRScan rows: code id -> number of rows referencing the code
    tproc,      \* trackScan calls in flight: process -> [pc, code]
    tsCalls,    \* trackScan calls started so far (bounds the run)
    tsOk,       \* history: code id -> calls that returned { success: true }
    tsFail,     \* history: code id -> calls that threw 'Failed to track scan'
    tsRaced,    \* history: two calls on one code had both written their scan row, neither its increment
    month,      \* the current calendar month
    reviews,    \* Review rows with their AIReviewGeneration row: a sequence, index = id
    sub,        \* Subscription row of each business
    usage,      \* SubscriptionUsage rows (featureType 'ai_enhancement'): business -> month -> count
    proc,       \* requests and service calls in flight: caller -> record
    lastCheck,  \* the answer of the checkUsageLimit call that has just returned
    lastResp,   \* the request or service call that has just been answered, with its answer
    opsAi,      \* history: business -> enhancements that succeeded, created this month
    opsRev,     \* history: business -> reviews submitted this month
    okReq,      \* history: business -> month -> enhance requests answered 201
    raced       \* history: two requests were about to record usage at the same time

qrVars == <<qr, qrScans, tproc, tsCalls, tsOk, tsFail, tsRaced>>
mainVars == <<month, reviews, sub, usage, proc, lastCheck, lastResp, opsAi, opsRev, okReq, raced>>
vars == <<qr, qrScans, tproc, tsCalls, tsOk, tsFail, tsRaced,
          month, reviews, sub, usage, proc, lastCheck, lastResp, opsAi, opsRev, okReq, raced>>


\* ======================================================== Plan Catalog
\* A feature limit, as the JavaScript value it is: a number, a boolean (n = 1
\* for true), or undefined for a key the feature map does not hold.
Num(n) == [kind |-> "num", n |-> n]
Bool(b) == [kind |-> "bool", n |-> IF b THEN 1 ELSE 0]
Undefined == [kind |-> "undefined", n |-> 0]
\* the string 'unlimited' that checkFeatureLimit answers as limit
UnlimitedStr == [kind |-> "unlimited", n |-> 0]
NaN == [kind |-> "NaN", n |-> 0]

FreeAiEnhancementsPerMonth == 5
FreeReviewsPerMonth == 10
FreeCustomFormFields == 3
FreeMultipleLocations == 1
Unlimited == -1
\* price: 49.99, in cents
PremiumPriceCents == 4999

PlanKeys == {"aiEnhancementsPerMonth", "reviewsPerMonth", "customFormFields",
             "basicAnalytics", "emailSupport", "customBranding",
             "advancedAnalytics", "prioritySupport", "apiAccess", "whiteLabel",
             "multipleLocations"}

\* the feature key both gated routes hand to checkSubscriptionLimit and recordUsage
RouteFeature == "ai_enhancement"

\* the feature keys with a monthly count, which the usage answer is asked for
CheckedFeatures == {"aiEnhancementsPerMonth", "reviewsPerMonth"}

FreeFeatures ==
    [k \in PlanKeys |->
        CASE k = "aiEnhancementsPerMonth" -> Num(FreeAiEnhancementsPerMonth)
          [] k = "reviewsPerMonth" -> Num(FreeReviewsPerMonth)
          [] k = "customFormFields" -> Num(FreeCustomFormFields)
          [] k = "multipleLocations" -> Num(FreeMultipleLocations)
          [] k = "basicAnalytics" -> Bool(TRUE)
          [] OTHER -> Bool(FALSE)]

PremiumFeatures ==
    [k \in PlanKeys |->
        CASE k \in {"aiEnhancementsPerMonth", "reviewsPerMonth",
                    "customFormFields", "multipleLocations"} -> Num(Unlimited)
          [] OTHER -> Bool(TRUE)]

plans ==
    [FREE |-> [id |-> "free", name |-> "Free", price |-> 0, features |-> FreeFeatures],
     PREMIUM |-> [id |-> "premium", name |-> "Premium", price |-> PremiumPriceCents,
                  features |-> PremiumFeatures]]

\* String.prototype.toUpperCase on the plan ids in use
ToUpperCase(str) ==
    CASE str = "free" -> "FREE"
      [] str = "premium" -> "PREMIUM"
      [] OTHER -> str

\* getPlan: this.plans[planId.toUpperCase()] || this.plans.FREE
getPlan(planId) ==
    LET upperPlanId == ToUpperCase(planId) IN
    IF upperPlanId \in DOMAIN plans THEN plans[upperPlanId] ELSE plans.FREE

\* plan.features[feature]
FeatureLimit(plan, feature) ==
    IF feature \in DOMAIN plan.features THEN plan.features[feature] ELSE Undefined

\* ============================================================ Datastore
NoGen == [status |-> "none", created |-> 0, text |-> "none"]
\* a Subscription row: endPassed says that its endDate lies before now
NoSub == [planId |-> "none", status |-> "none", endPassed |-> FALSE]

HasGen(r) == r \in 1..Len(reviews) /\ reviews[r].gen.status # "none"

\* the count without its createdAt filter
CountGenerationsAnyMonth(b, m) ==
    Cardinality({r \in 1..Len(reviews) :
        reviews[r].biz = b /\ reviews[r].gen.status # "none"})

\* prisma.aIReviewGeneration.count({ where: { review: { businessId },
\*   createdAt: { gte: first day of the current month } } })
CountGenerations(b, m) ==
    Cardinality({r \in 1..Len(reviews) :
        reviews[r].biz = b /\ reviews[r].gen.status # "none"
                           /\ reviews[r].gen.created >= m})

\* prisma.review.count({ where: { businessId, createdAt: { gte: first of month } } })
CountReviews(b, m) ==
    Cardinality({r \in 1..Len(reviews) :
        reviews[r].biz = b /\ reviews[r].created >= m})

\* ==================================================== Entitlement Check
\* used < limit, as JavaScript compares: against undefined the answer is false
LessThan(used, limit) ==
    IF limit.kind = "num" THEN used < limit.n ELSE FALSE

\* Math.max(0, limit - used)
MaxZeroDiff(limit, used) ==
    IF limit.kind = "num"
    THEN Num(IF limit.n - used > 0 THEN limit.n - used ELSE 0)
    ELSE NaN

\* The usage read of checkFeatureLimit: the switch over the feature, and the
\* catch block that logs a failed count and goes on with used = 0.
UsedOf(feature, b, countOk) ==
    IF countOk
    THEN CASE feature = "aiEnhancementsPerMonth" -> CountGenerations(b, month)
           [] feature = "reviewsPerMonth" -> CountReviews(b, month)
           [] OTHER -> 0
    ELSE 0

\* a test that takes no limit for unlimited
NeverUnlimited(limit) == FALSE

\* limit === -1
IsUnlimited(limit) == limit = Num(Unlimited)

\* checkFeatureLimit(planId, feature, businessId)
checkFeatureLimit(planId, feature, b, countOk) ==
    LET plan == getPlan(planId)
        limit == FeatureLimit(plan, feature)
    IN  IF IsUnlimited(limit)
        THEN [allowed |-> TRUE, limit |-> UnlimitedStr, used |-> 0,
              remaining |-> Undefined, message |-> FALSE]
        ELSE IF limit.kind = "bool"
        THEN [allowed |-> (limit.n = 1), limit |-> limit, used |-> 0,
              remaining |-> Undefined, message |-> FALSE]
        ELSE LET used == UsedOf(feature, b, countOk) IN
             [allowed |-> LessThan(used, limit), limit |-> limit, used |-> used,
              remaining |-> MaxZeroDiff(limit, used), message |-> FALSE]

\* the catch block of checkUsageLimit
UnableToVerify ==
    [allowed |-> FALSE, limit |-> Undefined, used |-> 0,
     remaining |-> Undefined, message |-> TRUE]

\* checkUsageLimit(businessId, feature).  lookupOk: prisma.business.findUnique
\* answered; countOk: the usage count query answered.
checkUsageLimit(b, feature, lookupOk, countOk) ==
    IF ~lookupOk
    THEN UnableToVerify
    ELSE IF b \notin Business \/ sub[b] = NoSub
    THEN checkFeatureLimit("FREE", feature, b, countOk)
    ELSE checkFeatureLimit(sub[b].planId, feature, b, countOk)


\* a default that takes a business without a subscription for a paying one
PlanIdOrPremium(b) ==
    IF b \notin Business \/ sub[b] = NoSub THEN "PREMIUM" ELSE sub[b].planId

\* business?.subscription?.planId || 'FREE' of requireFeature, requirePaidPlan
\* and the features and usage endpoints
PlanIdOrFree(b) ==
    IF b \notin Business \/ sub[b] = NoSub THEN "FREE" ELSE sub[b].planId

\* !plan.features[feature]: undefined, false and 0 are falsy
Falsy(limit) ==
    \/ limit = Undefined
    \/ limit.kind = "bool" /\ limit.n = 0
    \/ limit.kind = "num" /\ limit.n = 0

\* requireFeature(feature): 400 without a business id, 403 when the plan's
\* feature is falsy, otherwise next()
requireFeature(b, feature) ==
    IF b = Absent THEN "400"
    ELSE IF Falsy(FeatureLimit(getPlan(PlanIdOrFree(b)), feature)) THEN "403"
    ELSE "next"

\* requirePaidPlan: 400 without a business id, 403 on plan FREE, otherwise next()
requirePaidPlan(b) ==
    IF b = Absent THEN "400"
    ELSE IF PlanIdOrFree(b) = "FREE" THEN "403"
    ELSE "next"

\* GET /features: the current plan's id, name, price and feature map
GetFeatures(b) ==
    IF b \notin Business THEN [code |-> "404"]
    ELSE LET plan == getPlan(PlanIdOrFree(b)) IN
         [code |-> "200", id |-> plan.id, name |-> plan.name,
          price |-> plan.price, features |-> plan.features]

\* limit > 0 ? Math.min(100, (used / limit) * 100) : 0, as the fraction
\* <<numerator, denominator>>
Percentage(used, limit) ==
    IF limit > 0
    THEN IF used >= limit THEN <<100, 1>> ELSE <<used * 100, limit>>
    ELSE <<0, 1>>

\* GET /usage: the month's review count against the plan's limit; the
\* enhancement count is the constant 0
GetUsageStats(b) ==
    IF b \notin Business THEN [code |-> "404"]
    ELSE LET plan == getPlan(PlanIdOrFree(b))
             reviewCount == CountReviews(b, month)
             aiEnhancementCount == 0
         IN  [code |-> "200",
              reviews |-> [used |-> reviewCount,
                           limit |-> plan.features.reviewsPerMonth.n,
                           percentage |-> Percentage(reviewCount,
                                            plan.features.reviewsPerMonth.n)],
              aiEnhancements |-> [used |-> aiEnhancementCount,
                           limit |-> plan.features.aiEnhancementsPerMonth.n,
                           percentage |-> Percentage(aiEnhancementCount,
                                            plan.features.aiEnhancementsPerMonth.n)],
              plan |-> [id |-> plan.id, name |-> plan.name]]


\* ============================================================ Confidence
\* Confidence values are held in tenths: 7 is 0.7.
BaseConfidence == 7
ConfidenceBonus == 1
ConfidenceCap == 10

\* no calculateConfidence call
NoCalc == [originalWords |-> 0, enhancedWords |-> 0, period |-> FALSE,
           capital |-> FALSE, confidence |-> 0]

\* a length bonus that takes an enhanced text as long as the original
LengthBonusInclusive(originalWords, enhancedWords) ==
    enhancedWords >= originalWords /\ enhancedWords <= originalWords * 2

\* enhancedWords > originalWords && enhancedWords <= originalWords * 2
LengthBonus(originalWords, enhancedWords) ==
    enhancedWords > originalWords /\ enhancedWords <= originalWords * 2

\* Math.min(a, b)
Min(a, b) == IF a < b THEN a ELSE b

\* calculateConfidence(original, enhanced), on the word counts of the two
\* texts (split(' ').length, at least 1), on whether enhanced includes a '.'
\* and on whether its first character equals its upper case
calculateConfidence(originalWords, enhancedWords, period, capital) ==
    LET c0 == BaseConfidence
        c1 == IF LengthBonus(originalWords, enhancedWords)
              THEN c0 + ConfidenceBonus ELSE c0
        c2 == IF period /\ capital THEN c1 + ConfidenceBonus ELSE c1
    IN  Min(c2, ConfidenceCap)

\* ============================================================== Reviews
\* validateReviewText(originalText).isValid, on the two classes of text
validateReviewText(text) == text = "valid"

\* what a request read of a review before its first write: the review's status
\* and generatedReview and its generation
NoBefore == [status |-> "none", generatedReview |-> "none", gen |-> NoGen]

\* A request or service call: what it was called with, where it stands (pc),
\* what it has observed and done so far, and its answer (code) once given.
PIdle ==
    [op |-> "none", pc |-> "idle", via |-> "none", rev |-> 0, biz |-> Absent,
     caller |-> Absent, orig |-> "none", ai |-> "none",
     used0 |-> 0, ledger0 |-> 0, onRej |-> FALSE, fresh |-> FALSE, exh |-> FALSE,
     hadGen |-> FALSE, hadSub |-> FALSE, found |-> {}, rating |-> 0, wrote |-> {}, ids |-> {}, rendered |-> FALSE, calc |-> NoCalc, before |-> NoBefore, plan |-> "none", from |-> "none", after |-> "none",
     code |-> "none"]

NoCheck ==
    [biz |-> Absent, feature |-> "none", plan |-> "none", res |-> UnableToVerify,
     ops |-> 0, month |-> 0, lookupOk |-> FALSE, countOk |-> FALSE]

Free(p) == proc[p].pc = "idle"

\* the answer of a request or the outcome of a service call
Done(p, code) == [proc[p] EXCEPT !.pc = "done", !.code = code]

\* A request moves on to its next statement, or is answered: the answer is
\* kept, as the last answer given, until the next operation.
Step(p, nxt) ==
    /\ proc' = [proc EXCEPT ![p] = IF nxt.pc = "done" THEN PIdle ELSE nxt]
    /\ lastResp' = IF nxt.pc = "done" THEN nxt ELSE PIdle
    /\ lastCheck' = NoCheck

InitMain ==
    /\ month = 0
    /\ reviews = <<>>
    /\ sub = [b \in Business |-> NoSub]
    /\ usage = [b \in Business |-> [m \in 0..MaxMonth + 1 |-> 0]]
    /\ proc = [p \in Procs |-> PIdle]
    /\ lastCheck = NoCheck
    /\ lastResp = PIdle
    /\ opsAi = [b \in Business |-> 0]
    /\ opsRev = [b \in Business |-> 0]
    /\ okReq = [b \in Business |-> [m \in 0..MaxMonth + 1 |-> 0]]
    /\ raced = FALSE

\* The calendar month changes.
NewMonth ==
    /\ month < MaxMonth
    /\ month' = month + 1
    /\ opsAi' = [b \in Business |-> 0]
    /\ opsRev' = [b \in Business |-> 0]
    /\ lastCheck' = NoCheck
    /\ lastResp' = PIdle
    /\ UNCHANGED <<reviews, sub, usage, proc, okReq, raced>>
    /\ UNCHANGED qrVars

\* POST /public: prisma.review.create; status takes the column default.
SubmitReview(b, feedback, cap) ==
    /\ Len(reviews) < cap
    /\ reviews' = Append(reviews,
            [biz |-> b, status |-> "PENDING", feedback |-> feedback,
             generatedReview |-> "none", created |-> month, gen |-> NoGen,
             deletedAt |-> FALSE, rating |-> 5])
    /\ opsRev' = [opsRev EXCEPT ![b] = @ + 1]
    /\ lastCheck' = NoCheck
    /\ lastResp' = PIdle
    /\ UNCHANGED <<month, sub, usage, proc, opsAi, okReq, raced>>
    /\ UNCHANGED qrVars

\* subscriptionData of createSubscription: the plan's id in upper case, the
\* status by the plan's price, endDate 30 days from now
subscriptionData(planId) ==
    LET plan == getPlan(planId) IN
    [planId |-> ToUpperCase(plan.id),
     status |-> IF plan.price = 0 THEN "ACTIVE" ELSE "PENDING",
     endPassed |-> FALSE]

\* createSubscription(businessId, planId): the row is created, or the existing
\* one overwritten, with the plan's id in upper case.
createSubscription(b, planId) ==
    /\ b \in Business
    /\ sub' = [sub EXCEPT ![b] = subscriptionData(planId)]
    /\ sub'[b] # sub[b]
    /\ lastCheck' = NoCheck
    /\ lastResp' = PIdle
    /\ UNCHANGED <<month, reviews, usage, proc, opsAi, opsRev, okReq, raced>>
    /\ UNCHANGED qrVars

\* what a request finds when it arrives: the generations counted for the
\* business this month and the count of its ledger row
UsedNow(b) == CountGenerations(b, month)
LedgerNow(b) == IF b \in Business THEN usage[b][month] ELSE 0

\* the plan checkUsageLimit resolves for a business id
ResolvedPlan(b) ==
    IF b \notin Business \/ sub[b] = NoSub THEN "FREE" ELSE sub[b].planId

OpsOf(b, feature) ==
    IF b \notin Business THEN 0
    ELSE CASE feature = "aiEnhancementsPerMonth" -> opsAi[b]
           [] feature = "reviewsPerMonth" -> opsRev[b]
           [] OTHER -> 0

\* GET /usage/:feature, or a direct call: checkUsageLimit(businessId, feature)
\* answers; the answer is kept until the next operation.
GetUsage(b, feature, lookupOk, countOk) ==
    LET res == checkUsageLimit(b, feature, lookupOk, countOk) IN
    /\ lastCheck' = [biz |-> b, feature |-> feature, plan |-> ResolvedPlan(b),
                     res |-> res, ops |-> OpsOf(b, feature), month |-> month,
                     lookupOk |-> lookupOk, countOk |-> countOk]
    /\ lastResp' = PIdle
    /\ UNCHANGED <<month, reviews, sub, usage, proc, opsAi, opsRev, okReq, raced>>
    /\ UNCHANGED qrVars

\* the business's quota of AI enhancements for the month is used up
QuotaExhausted(b) ==
    LET limit == FeatureLimit(getPlan(ResolvedPlan(b)), "aiEnhancementsPerMonth") IN
    ~IsUnlimited(limit) /\ CountGenerations(b, month) >= limit.n

\* checkSubscriptionLimit(feature): the middleware's answer, "next" when it
\* calls next().  bodyBiz is req.body.businessId || req.params.businessId; the
\* caller's own business is looked up only when none is supplied.
checkSubscriptionLimit(feature, caller, bodyBiz, lookupOk, countOk) ==
    LET businessId == IF bodyBiz # Absent THEN bodyBiz ELSE caller
        usageCheck == checkUsageLimit(businessId, feature, lookupOk, countOk)
    IN  [businessId |-> businessId,
         code |-> IF ~usageCheck.allowed
                  THEN \* getSubscriptionAnalytics throws 'Business not found'
                       IF businessId \in Business /\ lookupOk THEN "403" ELSE "500"
                  ELSE "next"]

\* POST /enhance-review arrives: verifyFirebaseToken, then the middleware
\* checkSubscriptionLimit('ai_enhancement').
ReqEnhanceReview(p, caller, bodyBiz, r, lookupOk, countOk) ==
    LET gate == checkSubscriptionLimit(RouteFeature, caller, bodyBiz, lookupOk, countOk)
        req == [PIdle EXCEPT !.op = "enhance", !.via = "http", !.rev = r,
                    !.caller = caller, !.biz = gate.businessId,
                    !.fresh = (r \in 1..Len(reviews) /\ reviews[r].biz = caller
                               /\ reviews[r].status = "PENDING" /\ ~HasGen(r)),
                    !.used0 = UsedNow(caller), !.ledger0 = LedgerNow(gate.businessId),
                    !.exh = QuotaExhausted(gate.businessId),
                    !.plan = ResolvedPlan(gate.businessId)]
    IN  /\ Free(p)
        /\ Step(p, IF gate.code = "next"
                   THEN [req EXCEPT !.pc = "handler"]
                   ELSE [req EXCEPT !.pc = "done", !.code = gate.code])
        /\ UNCHANGED <<month, reviews, sub, usage, opsAi, opsRev, okReq, raced>>
        /\ UNCHANGED qrVars

\* The handler of POST /enhance-review is entered: the middleware has called
\* next() with req.businessId set.
EnhanceReviewHandler(p, caller, businessId, r) ==
    /\ Free(p)
    /\ Step(p, [PIdle EXCEPT !.op = "enhance", !.via = "handler", !.pc = "handler",
                    !.rev = r, !.caller = caller, !.biz = businessId,
                    !.used0 = UsedNow(caller), !.ledger0 = LedgerNow(businessId)])
    /\ UNCHANGED <<month, reviews, sub, usage, opsAi, opsRev, okReq, raced>>
    /\ UNCHANGED qrVars

\* Handler, first statement: prisma.review.findFirst for the caller's own
\* review, the already-enhanced guard, then the call of aiService.enhanceReview
\* with review.feedback.
HandlerFind(p) ==
    LET r == proc[p].rev IN
    /\ proc[p].pc = "handler"
    /\ Step(p, IF ~(r \in 1..Len(reviews) /\ reviews[r].biz = proc[p].caller)
               THEN Done(p, "404")
               ELSE IF HasGen(r) /\ reviews[r].gen.status # "REJECTED"
               THEN Done(p, "400")
               ELSE [proc[p] EXCEPT !.pc = "generate", !.orig = reviews[r].feedback,
                        !.onRej = (reviews[r].gen.status = "REJECTED")])
    /\ UNCHANGED <<month, reviews, sub, usage, opsAi, opsRev, okReq, raced>>
    /\ UNCHANGED qrVars

\* aiService.enhanceReview(reviewId, review.feedback, businessContext) called
\* directly.
CallEnhanceReview(p, r) ==
    /\ Free(p)
    /\ r \in 1..Len(reviews)
    /\ Step(p, [PIdle EXCEPT !.op = "enhance", !.via = "svc", !.pc = "generate",
                    !.rev = r, !.caller = reviews[r].biz, !.biz = reviews[r].biz,
                    !.orig = reviews[r].feedback,
                    !.used0 = UsedNow(reviews[r].biz),
                    !.onRej = (reviews[r].gen.status = "REJECTED")])
    /\ UNCHANGED <<month, reviews, sub, usage, opsAi, opsRev, okReq, raced>>
    /\ UNCHANGED qrVars

\* what the caller of enhanceReview sees when it throws
Threw(p) == IF proc[p].via = "svc" THEN "threw" ELSE "500"

\* enhanceReview up to its first write: text validation, then
\* this.model.generateContent(prompt) and result.response.text().  ai is what
\* the generative-text call does: "text", "" (an empty text) or "error".
Generate(p, ai) ==
    /\ proc[p].pc = "generate"
    /\ Step(p, IF ~validateReviewText(proc[p].orig)
               THEN Done(p, Threw(p))
               ELSE IF ai = "error"
               THEN [Done(p, Threw(p)) EXCEPT !.ai = ai]
               ELSE [proc[p] EXCEPT !.pc = "create", !.ai = ai])
    /\ UNCHANGED <<month, reviews, sub, usage, opsAi, opsRev, okReq, raced>>
    /\ UNCHANGED qrVars

\* enhanceReview, first write: prisma.aIReviewGeneration.create.  reviewId is
\* the unique key of the row (approveReview, rejectReview and regenerateReview
\* address it by where: { reviewId }), so the insert is rejected when the
\* review already has a generation.
CreateGeneration(p, dbOk) ==
    LET r == proc[p].rev IN
    /\ proc[p].pc = "create"
    /\ IF dbOk /\ r \in 1..Len(reviews) /\ ~HasGen(r)
       THEN /\ reviews' = [reviews EXCEPT ![r].gen =
                    [status |-> "PENDING", created |-> month, text |-> proc[p].ai]]
            /\ Step(p, [proc[p] EXCEPT !.pc = "update"])
       ELSE /\ Step(p, Done(p, Threw(p)))
            /\ UNCHANGED reviews
    /\ UNCHANGED <<month, sub, usage, opsAi, opsRev, okReq, raced>>
    /\ UNCHANGED qrVars

\* enhanceReview, second write: prisma.review.update sets generatedReview and
\* status 'AI_GENERATED'; the generation is returned.  The handler goes on to
\* recordUsage.
UpdateReview(p, dbOk) ==
    LET r == proc[p].rev IN
    /\ proc[p].pc = "update"
    /\ IF dbOk
       THEN /\ reviews' = [reviews EXCEPT ![r].generatedReview = proc[p].ai,
                                          ![r].status = "AI_GENERATED"]
            /\ Step(p, IF proc[p].via = "svc" THEN Done(p, "returned")
                       ELSE [proc[p] EXCEPT !.pc = "record"])
            /\ opsAi' = IF reviews[r].gen.created = month
                        THEN [opsAi EXCEPT ![reviews[r].biz] = @ + 1]
                        ELSE opsAi
       ELSE /\ Step(p, Done(p, Threw(p)))
            /\ UNCHANGED <<reviews, opsAi>>
    /\ UNCHANGED <<month, sub, usage, opsRev, okReq, raced>>
    /\ UNCHANGED qrVars

\* the update branch of the upsert writing count: 1 as the create branch does
UpsertOverwrite(count) == 1

\* prisma.subscriptionUsage.upsert: create with count 1, or count: { increment: 1 }
UpsertIncrement(count) == IF count = 0 THEN 1 ELSE count + 1

\* Handler, after enhanceReview returned: recordUsage(req.businessId,
\* 'ai_enhancement', ...), one upsert whose error is logged and dropped, then
\* the 201 answer (200 from the regenerate handler, which ends the same way).
RecordUsage(p, dbOk) ==
    LET b == proc[p].biz IN
    /\ proc[p].pc = "record"
    /\ b \in Business
    /\ usage' = IF dbOk
                THEN [usage EXCEPT ![b][month] = UpsertIncrement(@)]
                ELSE usage
    /\ okReq' = [okReq EXCEPT ![b][month] = @ + 1]
    /\ raced' = (raced \/ \E q \in Procs \ {p} : proc[q].pc = "record")
    /\ Step(p, Done(p, IF proc[p].op = "regenerate" THEN "200" ELSE "201"))
    /\ UNCHANGED <<month, reviews, sub, opsAi, opsRev>>
    /\ UNCHANGED qrVars

\* POST /reject-review/:reviewId: the caller's own review is looked up, a
\* review without a generation is answered 400, then aiService.rejectReview.
ReqRejectReview(p, caller, r) ==
    LET req == [PIdle EXCEPT !.op = "reject", !.via = "http", !.rev = r,
                    !.caller = caller] IN
    /\ Free(p)
    /\ Step(p, IF ~(r \in 1..Len(reviews) /\ reviews[r].biz = caller)
               THEN [req EXCEPT !.pc = "done", !.code = "404"]
               ELSE IF ~HasGen(r)
               THEN [req EXCEPT !.pc = "done", !.code = "400"]
               ELSE [req EXCEPT !.pc = "rejGen", !.from = reviews[r].status,
                        !.orig = reviews[r].feedback])
    /\ UNCHANGED <<month, reviews, sub, usage, opsAi, opsRev, okReq, raced>>
    /\ UNCHANGED qrVars

\* rejectReview, first write: prisma.aIReviewGeneration.update to 'REJECTED'.
RejectGeneration(p, dbOk) ==
    LET r == proc[p].rev IN
    /\ proc[p].pc = "rejGen"
    /\ IF dbOk /\ HasGen(r)
       THEN /\ reviews' = [reviews EXCEPT ![r].gen.status = "REJECTED"]
            /\ Step(p, [proc[p] EXCEPT !.pc = "rejRev"])
       ELSE /\ Step(p, Done(p, "500"))
            /\ UNCHANGED reviews
    /\ UNCHANGED <<month, sub, usage, opsAi, opsRev, okReq, raced>>
    /\ UNCHANGED qrVars

\* what the review looks like right after rejectReview's second write
Snapshot(rv, orig) ==
    IF rv.status = "PENDING" /\ rv.gen.status = "REJECTED" /\ rv.feedback = orig
    THEN "pending-rejected-kept"
    ELSE "other"

\* rejectReview, second write: prisma.review.update to status 'PENDING'.
RejectReviewRow(p, dbOk) ==
    LET r == proc[p].rev IN
    /\ proc[p].pc = "rejRev"
    /\ IF dbOk
       THEN /\ reviews' = [reviews EXCEPT ![r].status = "PENDING"]
            /\ Step(p, [Done(p, "200") EXCEPT
                            !.after = Snapshot(reviews'[r], proc[p].orig)])
       ELSE /\ Step(p, Done(p, "500"))
            /\ UNCHANGED reviews
    /\ UNCHANGED <<month, sub, usage, opsAi, opsRev, okReq, raced>>
    /\ UNCHANGED qrVars

\* ===================================================== Review lifecycle
\* the values the status update route accepts
ValidStatuses == {"PENDING", "AI_GENERATED", "APPROVED", "PUBLISHED", "REJECTED"}

\* POST /approve-review/:reviewId: the caller's own review is looked up, a
\* review without a generation is answered 400, then aiService.approveReview.
ReqApproveReview(p, caller, r) ==
    LET req == [PIdle EXCEPT !.op = "approve", !.via = "http", !.rev = r,
                    !.caller = caller] IN
    /\ Free(p)
    /\ Step(p, IF ~(r \in 1..Len(reviews) /\ reviews[r].biz = caller)
               THEN [req EXCEPT !.pc = "done", !.code = "404"]
               ELSE IF ~HasGen(r)
               THEN [req EXCEPT !.pc = "done", !.code = "400"]
               ELSE [req EXCEPT !.pc = "apprGen", !.from = reviews[r].status,
                        !.orig = reviews[r].feedback])
    /\ UNCHANGED <<month, reviews, sub, usage, opsAi, opsRev, okReq, raced>>
    /\ UNCHANGED qrVars

\* approveReview, first write: prisma.aIReviewGeneration.update to 'APPROVED'.
ApproveGeneration(p, dbOk) ==
    LET r == proc[p].rev IN
    /\ proc[p].pc = "apprGen"
    /\ IF dbOk /\ HasGen(r)
       THEN /\ reviews' = [reviews EXCEPT ![r].gen.status = "APPROVED"]
            /\ Step(p, [proc[p] EXCEPT !.pc = "apprRev"])
       ELSE /\ Step(p, Done(p, "500"))
            /\ UNCHANGED reviews
    /\ UNCHANGED <<month, sub, usage, opsAi, opsRev, okReq, raced>>
    /\ UNCHANGED qrVars

\* approveReview, second write: prisma.review.update to status 'APPROVED'.
ApproveReviewRow(p, dbOk) ==
    LET r == proc[p].rev IN
    /\ proc[p].pc = "apprRev"
    /\ IF dbOk
       THEN /\ reviews' = [reviews EXCEPT ![r].status = "APPROVED"]
            /\ Step(p, Done(p, "200"))
       ELSE /\ Step(p, Done(p, "500"))
            /\ UNCHANGED reviews
    /\ UNCHANGED <<month, sub, usage, opsAi, opsRev, okReq, raced>>
    /\ UNCHANGED qrVars

\* POST /regenerate-review/:reviewId arrives: verifyFirebaseToken, then the
\* middleware checkSubscriptionLimit('ai_enhancement').
ReqRegenerateReview(p, caller, bodyBiz, r, lookupOk, countOk) ==
    LET gate == checkSubscriptionLimit(RouteFeature, caller, bodyBiz, lookupOk, countOk)
        req == [PIdle EXCEPT !.op = "regenerate", !.via = "http", !.rev = r,
                    !.caller = caller, !.biz = gate.businessId,
                    !.hadGen = HasGen(r),
                    !.used0 = UsedNow(caller), !.ledger0 = LedgerNow(gate.businessId),
                    !.exh = QuotaExhausted(gate.businessId),
                    !.plan = ResolvedPlan(gate.businessId)]
    IN  /\ Free(p)
        /\ Step(p, IF gate.code = "next"
                   THEN [req EXCEPT !.pc = "regenFind"]
                   ELSE [req EXCEPT !.pc = "done", !.code = gate.code])
        /\ UNCHANGED <<month, reviews, sub, usage, opsAi, opsRev, okReq, raced>>
        /\ UNCHANGED qrVars

\* The handler of POST /regenerate-review/:reviewId is entered: the middleware
\* has called next() with req.businessId set.
RegenerateReviewHandler(p, caller, businessId, r) ==
    /\ Free(p)
    /\ Step(p, [PIdle EXCEPT !.op = "regenerate", !.via = "handler",
                    !.pc = "regenFind", !.rev = r, !.caller = caller,
                    !.biz = businessId, !.hadGen = HasGen(r),
                    !.used0 = UsedNow(caller), !.ledger0 = LedgerNow(businessId)])
    /\ UNCHANGED <<month, reviews, sub, usage, opsAi, opsRev, okReq, raced>>
    /\ UNCHANGED qrVars

\* Handler: prisma.review.findFirst for the caller's own review (404), then
\* aiService.regenerateReview reads the review with its generation.
RegenerateFind(p) ==
    LET r == proc[p].rev IN
    /\ proc[p].pc = "regenFind"
    /\ Step(p, IF ~(r \in 1..Len(reviews) /\ reviews[r].biz = proc[p].caller)
               THEN Done(p, "404")
               ELSE [proc[p] EXCEPT
                        !.pc = IF HasGen(r) THEN "regenMark" ELSE "generate",
                        !.orig = reviews[r].feedback, !.from = reviews[r].status,
                        !.before = [status |-> reviews[r].status,
                                    generatedReview |-> reviews[r].generatedReview,
                                    gen |-> reviews[r].gen]])
    /\ UNCHANGED <<month, reviews, sub, usage, opsAi, opsRev, okReq, raced>>
    /\ UNCHANGED qrVars

\* regenerateReview, first write: the previous generation is marked
\* 'REGENERATED'; enhanceReview is called next with review.feedback.
RegenerateMark(p, dbOk) ==
    LET r == proc[p].rev IN
    /\ proc[p].pc = "regenMark"
    /\ IF dbOk /\ HasGen(r)
       THEN /\ reviews' = [reviews EXCEPT ![r].gen.status = "REGENERATED"]
            /\ Step(p, [proc[p] EXCEPT !.pc = "generate"])
       ELSE /\ Step(p, Done(p, "500"))
            /\ UNCHANGED reviews
    /\ UNCHANGED <<month, sub, usage, opsAi, opsRev, okReq, raced>>
    /\ UNCHANGED qrVars

\* PUT /:reviewId/status of the reviews routes: the status must be one of the
\* five valid ones (400), the review one of the caller's business (404); the
\* row is updated with the status, and with generatedReview when one is sent
\* along with status 'AI_GENERATED'.
UpdateReviewStatus(p, caller, r, status, generatedReview) ==
    LET req == [PIdle EXCEPT !.op = "status", !.via = "http", !.rev = r,
                    !.caller = caller] IN
    /\ Free(p)
    /\ IF status \notin ValidStatuses
       THEN /\ Step(p, [req EXCEPT !.pc = "done", !.code = "400"])
            /\ UNCHANGED reviews
       ELSE IF ~(r \in 1..Len(reviews) /\ reviews[r].biz = caller)
       THEN /\ Step(p, [req EXCEPT !.pc = "done", !.code = "404"])
            /\ UNCHANGED reviews
       ELSE /\ reviews' = [reviews EXCEPT ![r] =
                    IF generatedReview # Absent /\ status = "AI_GENERATED"
                    THEN [@ EXCEPT !.status = status, !.generatedReview = generatedReview]
                    ELSE [@ EXCEPT !.status = status]]
            /\ Step(p, [req EXCEPT !.pc = "done", !.code = "200",
                            !.from = reviews[r].status])
    /\ UNCHANGED <<month, sub, usage, opsAi, opsRev, okReq, raced>>
    /\ UNCHANGED qrVars

\* In the answer of a moderation request, ids are the reviews its update
\* matched and wrote is the set of columns named in the update's data.
\* PUT /reviews/:id/moderate of the super-admin routes: status is 'APPROVED'
\* or 'REJECTED' (validation); SuperAdminService.moderateReview updates the
\* row to status.toUpperCase() whatever its status is; an unknown id is 404.
moderateReview(p, r, status) ==
    LET req == [PIdle EXCEPT !.op = "moderate", !.via = "http", !.rev = r] IN
    /\ Free(p)
    /\ status \in {"APPROVED", "REJECTED"}
    /\ IF r \in 1..Len(reviews)
       THEN /\ reviews' = [reviews EXCEPT ![r].status = status]
            /\ Step(p, [req EXCEPT !.pc = "done", !.code = "200",
                            !.from = reviews[r].status, !.wrote = {"status"},
                            !.ids = {r}])
       ELSE /\ Step(p, [req EXCEPT !.pc = "done", !.code = "404"])
            /\ UNCHANGED reviews
    /\ UNCHANGED <<month, sub, usage, opsAi, opsRev, okReq, raced>>
    /\ UNCHANGED qrVars

\* the soft delete of bulkModerateReviews: data { deletedAt, moderatedBy }
SoftDelete(rv) == [rv EXCEPT !.deletedAt = TRUE]

\* the status bulkModerateReviews writes for an action
BulkStatus(action) ==
    CASE action = "approve" -> "APPROVED"
      [] action = "reject" -> "REJECTED"
      [] action = "flag" -> "FLAGGED"
      [] OTHER -> "none"

\* POST /moderation/bulk -> SuperAdminService.bulkModerateReviews(action,
\* reviewIds, moderatorId): one updateMany over the ids that exist.  The
\* status column's type is declared outside these sources: enumOk says
\* whether the datastore takes the value 'FLAGGED'; when it does not the
\* updateMany throws and the route answers 500.
bulkModerateReviews(p, action, reviewIds, enumOk) ==
    LET req == [PIdle EXCEPT !.op = "bulk", !.via = "http"]
        ids == reviewIds \cap (1..Len(reviews))
    IN  /\ Free(p)
        /\ action \in {"approve", "reject", "flag", "delete"}
        /\ reviewIds # {}
        /\ IF action = "delete"
           THEN /\ reviews' = [r \in 1..Len(reviews) |->
                        IF r \in ids THEN SoftDelete(reviews[r]) ELSE reviews[r]]
                /\ Step(p, [req EXCEPT !.pc = "done", !.code = "200",
                                !.wrote = {"deletedAt", "moderatedBy"}, !.ids = ids])
           ELSE IF action = "flag" /\ ~enumOk
           THEN /\ Step(p, [req EXCEPT !.pc = "done", !.code = "500"])
                /\ UNCHANGED reviews
           ELSE /\ reviews' = [r \in 1..Len(reviews) |->
                        IF r \in ids
                        THEN [reviews[r] EXCEPT !.status = BulkStatus(action)]
                        ELSE reviews[r]]
                /\ Step(p, [req EXCEPT !.pc = "done", !.code = "200",
                                !.wrote = {"status", "moderatedAt", "moderatedBy"},
                                !.ids = ids])
        /\ UNCHANGED <<month, sub, usage, opsAi, opsRev, okReq, raced>>
        /\ UNCHANGED qrVars

\* an export that leaves out the rows carrying deletedAt
ExportLiveReviews(b) ==
    {r \in 1..Len(reviews) : reviews[r].biz = b /\ ~reviews[r].deletedAt}

\* SuperAdminService.exportBusinessData(businessId, format), its reviews:
\* prisma.review.findMany({ where: { businessId } })
exportBusinessData(b) ==
    {r \in 1..Len(reviews) : reviews[r].biz = b}

\* prisma.review.findFirst({ where: { id, customer: { businessId } } }) of the
\* owner's routes: the ids it answers a row for
findFirst(b) ==
    {r \in 1..Len(reviews) : reviews[r].biz = b}

\* ================================================= Subscription lifecycle
\* createSubscription, its read: getPlan(planId) and prisma.business.findUnique
\* with the subscription; 'Business not found' is thrown for an unknown id.
CreateSubscriptionFind(p, b, planId) ==
    LET req == [PIdle EXCEPT !.op = "upgrade", !.via = "svc", !.biz = b,
                    !.plan = planId] IN
    /\ Free(p)
    /\ Step(p, IF b \notin Business
               THEN [req EXCEPT !.pc = "done", !.code = "threw"]
               ELSE [req EXCEPT !.pc = "subWrite", !.hadSub = (sub[b] # NoSub),
                        !.from = sub[b].status])
    /\ UNCHANGED <<month, reviews, sub, usage, opsAi, opsRev, okReq, raced>>
    /\ UNCHANGED qrVars

\* createSubscription, its write: prisma.subscription.update of the row that
\* was read, or prisma.subscription.create when none was read.  businessId is
\* the row's unique key (the row is read as business.subscription), so a
\* create for a business that has a row by now is rejected and the call throws.
CreateSubscriptionWrite(p) ==
    LET b == proc[p].biz IN
    /\ proc[p].pc = "subWrite"
    /\ IF proc[p].hadSub \/ sub[b] = NoSub
       THEN /\ sub' = [sub EXCEPT ![b] = subscriptionData(proc[p].plan)]
            /\ Step(p, Done(p, IF proc[p].via = "http" THEN "200" ELSE "returned"))
       ELSE /\ Step(p, Done(p, Threw(p)))
            /\ UNCHANGED sub
    /\ UNCHANGED <<month, reviews, usage, opsAi, opsRev, okReq, raced>>
    /\ UNCHANGED qrVars

\* the plan ids POST /upgrade accepts: isIn(['FREE', 'PRO', 'ULTIMATE'])
AcceptedPlanIds == {"FREE", "PRO", "ULTIMATE"}

\* POST /api/subscription/upgrade up to the call of createSubscription: the
\* body's planId is validated (400), the caller's business looked up (404),
\* then createSubscription reads the business with its subscription.  The
\* answer after the write is 200 'Successfully upgraded to ${planId} plan',
\* or 500 when createSubscription throws.
PostUpgrade(p, caller, planId) ==
    LET req == [PIdle EXCEPT !.op = "upgrade", !.via = "http", !.caller = caller,
                    !.biz = caller, !.plan = planId] IN
    /\ Free(p)
    /\ Step(p, IF planId = Absent \/ planId \notin AcceptedPlanIds
               THEN [req EXCEPT !.pc = "done", !.code = "400"]
               ELSE IF caller \notin Business
               THEN [req EXCEPT !.pc = "done", !.code = "404"]
               ELSE [req EXCEPT !.pc = "subWrite", !.hadSub = (sub[caller] # NoSub),
                        !.from = sub[caller].status])
    /\ UNCHANGED <<month, reviews, sub, usage, opsAi, opsRev, okReq, raced>>
    /\ UNCHANGED qrVars

\* cancelSubscription, its read: 'No active subscription found' is thrown when
\* the business has no subscription row, whatever the row's status otherwise.
CancelSubscriptionFind(p, b) ==
    LET req == [PIdle EXCEPT !.op = "cancel", !.via = "svc", !.biz = b] IN
    /\ Free(p)
    /\ Step(p, IF b \notin Business \/ sub[b] = NoSub
               THEN [req EXCEPT !.pc = "done", !.code = "threw"]
               ELSE [req EXCEPT !.pc = "cancelWrite", !.hadSub = TRUE,
                        !.from = sub[b].status])
    /\ UNCHANGED <<month, reviews, sub, usage, opsAi, opsRev, okReq, raced>>
    /\ UNCHANGED qrVars

\* cancelSubscription, its write: status 'CANCELLED' and cancelledAt
CancelSubscriptionWrite(p) ==
    LET b == proc[p].biz IN
    /\ proc[p].pc = "cancelWrite"
    /\ sub' = [sub EXCEPT ![b].status = "CANCELLED"]
    /\ Step(p, Done(p, "returned"))
    /\ UNCHANGED <<month, reviews, usage, opsAi, opsRev, okReq, raced>>
    /\ UNCHANGED qrVars

\* the rows the sweep's findMany selects: endDate before now and status
\* ACTIVE or CANCELLED
expiredSubscriptions ==
    {b \in Business : /\ sub[b] # NoSub
                      /\ sub[b].endPassed
                      /\ sub[b].status \in {"ACTIVE", "CANCELLED"}}

\* checkAndUpdateExpiredSubscriptions, its read
SweepFind(p) ==
    /\ Free(p)
    /\ Step(p, [PIdle EXCEPT !.op = "sweep", !.via = "svc", !.pc = "sweep",
                    !.found = expiredSubscriptions])
    /\ UNCHANGED <<month, reviews, sub, usage, opsAi, opsRev, okReq, raced>>
    /\ UNCHANGED qrVars

\* checkAndUpdateExpiredSubscriptions, its loop: one row that was selected is
\* updated to 'EXPIRED' per turn; after the last the count is returned.  A
\* write the datastore rejects ends the sweep in its catch block.
SweepUpdate(p, dbOk) ==
    /\ proc[p].pc = "sweep"
    /\ IF proc[p].found = {}
       THEN /\ Step(p, Done(p, "returned"))
            /\ UNCHANGED sub
       ELSE IF ~dbOk
       THEN /\ Step(p, Done(p, "caught"))
            /\ UNCHANGED sub
       ELSE \E b \in proc[p].found :
            /\ sub' = [sub EXCEPT ![b].status = "EXPIRED"]
            /\ Step(p, [proc[p] EXCEPT !.found = @ \ {b}])
    /\ UNCHANGED <<month, reviews, usage, opsAi, opsRev, okReq, raced>>
    /\ UNCHANGED qrVars

\* Time passes: the endDate of a business's subscription, 30 days after its
\* last createSubscription, now lies in the past.
EndDatePasses(b) ==
    /\ sub[b] # NoSub
    /\ ~sub[b].endPassed
    /\ sub' = [sub EXCEPT ![b].endPassed = TRUE]
    /\ lastCheck' = NoCheck
    /\ lastResp' = PIdle
    /\ UNCHANGED <<month, reviews, usage, proc, opsAi, opsRev, okReq, raced>>
    /\ UNCHANGED qrVars

\* ==================================================== Public submission
\* A rating of the request body is a number held in tenths: 45 is 4.5.
\* !rating: 0 is falsy
Truthy(rating) == rating # 0

\* parseInt(rating): the digits before the decimal point
parseInt(rating) ==
    IF rating >= 0 THEN rating \div 10 ELSE -((-rating) \div 10)

\* feedback || ''
FeedbackOrEmpty(feedback) == IF feedback = Absent THEN "" ELSE feedback

\* POST /public of the reviews routes.  customer is the business the customer
\* of customerId belongs to (Absent: no customerId sent); 400 when customerId,
\* businessId or rating is falsy, 404 when the customer is not one of the
\* business; otherwise prisma.review.create with parseInt(rating) and
\* feedback || '', answered 201.  cap bounds the number of rows.
PostPublicReview(p, customer, b, rating, feedback, cap) ==
    LET req == [PIdle EXCEPT !.op = "public", !.via = "http", !.biz = b,
                    !.rating = rating, !.orig = FeedbackOrEmpty(feedback)] IN
    /\ Free(p)
    /\ Len(reviews) < cap
    /\ IF customer = Absent \/ b = Absent \/ ~Truthy(rating)
       THEN /\ Step(p, [req EXCEPT !.pc = "done", !.code = "400"])
            /\ UNCHANGED <<reviews, opsRev>>
       ELSE IF customer # b \/ b \notin Business
       THEN /\ Step(p, [req EXCEPT !.pc = "done", !.code = "404"])
            /\ UNCHANGED <<reviews, opsRev>>
       ELSE /\ reviews' = Append(reviews,
                    [biz |-> b, status |-> "PENDING",
                     feedback |-> FeedbackOrEmpty(feedback),
                     generatedReview |-> "none", created |-> month, gen |-> NoGen,
                     deletedAt |-> FALSE, rating |-> parseInt(rating)])
            /\ opsRev' = [opsRev EXCEPT ![b] = @ + 1]
            /\ Step(p, [req EXCEPT !.pc = "done", !.code = "201",
                            !.rev = Len(reviews) + 1])
    /\ UNCHANGED <<month, sub, usage, opsAi, okReq, raced>>
    /\ UNCHANGED qrVars

\* the count of the SubscriptionUsage row of a business for the current month
\* and a catalog feature: recordUsage is only ever called with featureType
\* 'ai_enhancement', the row of the AI enhancements; no row is written for
\* any other feature
UsageRecordCount(b, feature) ==
    IF b \in Business /\ feature = "aiEnhancementsPerMonth"
    THEN usage[b][month]
    ELSE 0

\* enhanceReview computes the confidence of an enhancement; the call and its
\* result are kept as the last answer.
CalculateConfidence(originalWords, enhancedWords, period, capital) ==
    /\ originalWords \in 1..MaxWords
    /\ enhancedWords \in 1..(2 * MaxWords + 1)
    /\ lastResp' = [PIdle EXCEPT !.op = "confidence", !.via = "svc", !.pc = "done",
                        !.code = "returned",
                        !.calc = [originalWords |-> originalWords,
                                  enhancedWords |-> enhancedWords,
                                  period |-> period, capital |-> capital,
                                  confidence |-> calculateConfidence(originalWords,
                                        enhancedWords, period, capital)]]
    /\ lastCheck' = NoCheck
    /\ UNCHANGED <<month, reviews, sub, usage, proc, opsAi, opsRev, okReq, raced>>
    /\ UNCHANGED qrVars

\* =================================================================== QR
\* the default of size in createQRCode and of width in generateQRCode
DefaultSize == 300

\* qrCodeUrl as createQRCode builds it: FRONTEND_URL/review/businessId
ReviewFormUrl == "/review/b1"

\* a || b on strings, where a value not sent is Absent, and on sizes, where it is 0
OrStr(a, b) == IF a # Absent THEN a ELSE b
OrNum(a, b) == IF a # 0 THEN a ELSE b

\* generateQRCode(url, options): the image is determined by the url and the
\* four options, each with its default
generateQRCode(url, options) ==
    [url |-> url,
     width |-> OrNum(options.size, DefaultSize),
     dark |-> OrStr(options.foregroundColor, "#000000"),
     light |-> OrStr(options.backgroundColor, "#FFFFFF"),
     errorCorrectionLevel |-> OrStr(options.errorCorrection, "M")]

NoImage ==
    [url |-> "none", width |-> 0, dark |-> "none", light |-> "none",
     errorCorrectionLevel |-> "none"]

\* no QRCode row
NoQR ==
    [exists |-> FALSE, scansCount |-> 0, title |-> "none",
     backgroundColor |-> "none", foregroundColor |-> "none", size |-> 0,
     errorCorrection |-> "none", qrCodeUrl |-> "none", qrImageUrl |-> NoImage]

\* an update that leaves scansCount as it is
IncrementByZero(count) == count

\* prisma.qRCode.update data: { scansCount: { increment: 1 } }
Increment(count) == count + 1

TIdle == [pc |-> "idle", code |-> "q1"]

InitQR ==
    /\ qr = [q \in QRCodes |-> NoQR]
    /\ qrScans = [q \in QRCodes |-> 0]
    /\ tproc = [p \in Procs |-> TIdle]
    /\ tsCalls = 0
    /\ tsOk = [q \in QRCodes |-> 0]
    /\ tsFail = [q \in QRCodes |-> 0]
    /\ tsRaced = FALSE

Init == InitQR /\ InitMain

\* QRCodeService.createQRCode: the row is created with scansCount at its default.
CreateQRCode(q) ==
    /\ ~qr[q].exists
    /\ qr' = [qr EXCEPT ![q] =
            [exists |-> TRUE, scansCount |-> 0, title |-> "Leave us a review",
             backgroundColor |-> "#FFFFFF", foregroundColor |-> "#000000",
             size |-> DefaultSize, errorCorrection |-> "M",
             qrCodeUrl |-> ReviewFormUrl,
             qrImageUrl |-> generateQRCode(ReviewFormUrl,
                    [size |-> DefaultSize, backgroundColor |-> "#FFFFFF",
                     foregroundColor |-> "#000000", errorCorrection |-> "M"])]]
    /\ UNCHANGED <<qrScans, tproc, tsCalls, tsOk, tsFail, tsRaced>>
    /\ UNCHANGED mainVars

\* POST /:id/track-scan calls QRCodeService.trackScan(id, scanData).
TrackScanCall(p, q) ==
    /\ tproc[p].pc = "idle"
    /\ tsCalls < MaxScanCalls
    /\ tsCalls' = tsCalls + 1
    /\ tproc' = [tproc EXCEPT ![p] = [pc |-> "create", code |-> q]]
    /\ UNCHANGED <<qr, qrScans, tsOk, tsFail, tsRaced>>
    /\ UNCHANGED mainVars

\* First write of trackScan: prisma.qRScan.create.  The insert is rejected when
\* the code does not exist (foreign key) or when the datastore errors (dbOk false);
\* the catch block then throws and the call is over.
TrackScanCreate(p, dbOk) ==
    LET q == tproc[p].code IN
    /\ tproc[p].pc = "create"
    /\ IF qr[q].exists /\ dbOk
       THEN /\ qrScans' = [qrScans EXCEPT ![q] = @ + 1]
            /\ tproc' = [tproc EXCEPT ![p].pc = "update"]
            /\ UNCHANGED tsFail
       ELSE /\ tsFail' = [tsFail EXCEPT ![q] = @ + 1]
            /\ tproc' = [tproc EXCEPT ![p] = TIdle]
            /\ UNCHANGED qrScans
    /\ UNCHANGED <<qr, tsCalls, tsOk, tsRaced>>
    /\ UNCHANGED mainVars

\* Second write of trackScan: prisma.qRCode.update with an atomic increment, then
\* return { success: true }.  When the update is rejected the scan row stays.
TrackScanUpdate(p, dbOk) ==
    LET q == tproc[p].code IN
    /\ tproc[p].pc = "update"
    /\ IF qr[q].exists /\ dbOk
       THEN /\ qr' = [qr EXCEPT ![q].scansCount = Increment(@)]
            /\ tsOk' = [tsOk EXCEPT ![q] = @ + 1]
            /\ UNCHANGED tsFail
       ELSE /\ tsFail' = [tsFail EXCEPT ![q] = @ + 1]
            /\ UNCHANGED <<qr, tsOk>>
    /\ tsRaced' = (tsRaced \/ \E o \in Procs \ {p} :
                        tproc[o].pc = "update" /\ tproc[o].code = q)
    /\ tproc' = [tproc EXCEPT ![p] = TIdle]
    /\ UNCHANGED <<qrScans, tsCalls>>
    /\ UNCHANGED mainVars

\* updates[field] && updates[field] !== existingQRCode[field], for some of
\* the four visual fields
visualOptionsChanged(updates, existingQRCode) ==
    \/ updates.backgroundColor # Absent
            /\ updates.backgroundColor # existingQRCode.backgroundColor
    \/ updates.foregroundColor # Absent
            /\ updates.foregroundColor # existingQRCode.foregroundColor
    \/ updates.size # 0 /\ updates.size # existingQRCode.size
    \/ updates.errorCorrection # Absent
            /\ updates.errorCorrection # existingQRCode.errorCorrection

\* data: { ...updates, qrImageUrl }: every field the request body names is
\* written, the image as computed
SpreadUpdates(existingQRCode, updates, qrImageUrl) ==
    [existingQRCode EXCEPT
        !.title = OrStr(updates.title, @),
        !.backgroundColor = OrStr(updates.backgroundColor, @),
        !.foregroundColor = OrStr(updates.foregroundColor, @),
        !.size = OrNum(updates.size, @),
        !.errorCorrection = OrStr(updates.errorCorrection, @),
        !.qrCodeUrl = OrStr(updates.qrCodeUrl, @),
        !.qrImageUrl = qrImageUrl]

\* PUT /:id -> QRCodeService.updateQRCode(qrCodeId, updates), updates being
\* the request body as sent: 'QR code not found' is thrown for an unknown id;
\* the image is rendered anew when a visual option changed; the row is updated
\* with the body's fields and the image.  The answer says whether
\* generateQRCode was called.
updateQRCode(q, updates, dbOk) ==
    LET existingQRCode == qr[q]
        changed == visualOptionsChanged(updates, existingQRCode)
        qrImageUrl ==
            IF changed
            THEN generateQRCode(existingQRCode.qrCodeUrl,
                    [size |-> OrNum(updates.size, existingQRCode.size),
                     backgroundColor |-> OrStr(updates.backgroundColor,
                                               existingQRCode.backgroundColor),
                     foregroundColor |-> OrStr(updates.foregroundColor,
                                               existingQRCode.foregroundColor),
                     errorCorrection |-> OrStr(updates.errorCorrection,
                                               existingQRCode.errorCorrection)])
            ELSE existingQRCode.qrImageUrl
        req == [PIdle EXCEPT !.op = "qrUpdate", !.via = "svc", !.pc = "done"]
    IN  /\ IF ~existingQRCode.exists
           THEN /\ lastResp' = [req EXCEPT !.code = "threw"]
                /\ UNCHANGED qr
           ELSE IF ~dbOk
           THEN /\ lastResp' = [req EXCEPT !.code = "threw", !.rendered = changed]
                /\ UNCHANGED qr
           ELSE /\ qr' = [qr EXCEPT ![q] =
                        SpreadUpdates(existingQRCode, updates, qrImageUrl)]
                /\ lastResp' = [req EXCEPT !.code = "returned", !.rendered = changed]
        /\ lastCheck' = NoCheck
        /\ UNCHANGED <<qrScans, tproc, tsCalls, tsOk, tsFail, tsRaced>>
        /\ UNCHANGED <<month, reviews, sub, usage, proc, opsAi, opsRev, okReq, raced>>

NextQR ==
    \/ \E q \in QRCodes : CreateQRCode(q)
    \/ \E p \in Procs, q \in QRCodes : TrackScanCall(p, q)
    \/ \E p \in Procs, dbOk \in BOOLEAN : TrackScanCreate(p, dbOk)
    \/ \E p \in Procs, dbOk \in BOOLEAN : TrackScanUpdate(p, dbOk)

SpecQR == Init /\ [][NextQR]_vars


\* ======================================================= Specifications
\* Quota: one caller submits reviews, enhances the first MaxEnhanced of them
\* through the service in the order they were submitted (or the first one
\* again), asks for the usage
\* answer and changes plan, each call awaited before the next, while months
\* pass; the datastore answers every write.  The usage answer is asked with
\* every outcome of its two reads.
NextToEnhance(r) ==
    r = 1 \/ (~HasGen(r) /\ \A q \in 1..(r - 1) : HasGen(q))

NextQuota ==
    \/ NewMonth
    \/ Free("p1") /\ SubmitReview("b1", "valid", MaxReviews)
    \/ Free("p1") /\ createSubscription("b1", "premium")
    \/ \E r \in 1..MaxEnhanced : NextToEnhance(r) /\ CallEnhanceReview("p1", r)
    \/ \E ai \in {"text", "error"} : Generate("p1", ai)
    \/ CreateGeneration("p1", TRUE)
    \/ UpdateReview("p1", TRUE)
    \/ \E f \in CheckedFeatures, countOk \in BOOLEAN :
            Free("p1") /\ GetUsage("b1", f, TRUE, countOk)
    \/ Free("p1") /\ GetUsage("b1", "aiEnhancementsPerMonth", FALSE, TRUE)
    \/ Free("p1") /\ GetUsage(NoSuchBusiness, "aiEnhancementsPerMonth", TRUE, TRUE)

SpecQuota == Init /\ [][NextQuota]_vars

\* Ledger: two concurrent callers of one business send enhance requests for
\* its reviews while months pass; the datastore answers every write and the
\* text call answers.
NextLedger ==
    \/ NewMonth
    \/ SubmitReview("b1", "valid", MaxFlowReviews)
    \/ \E p \in Procs, r \in 1..MaxFlowReviews : EnhanceReviewHandler(p, "b1", "b1", r)
    \/ \E p \in Procs : HandlerFind(p)
    \/ \E p \in Procs : Generate(p, "text")
    \/ \E p \in Procs : CreateGeneration(p, TRUE)
    \/ \E p \in Procs : UpdateReview(p, TRUE)
    \/ \E p \in Procs : RecordUsage(p, TRUE)

SpecLedger == Init /\ [][NextLedger]_vars

\* Flow: one caller's enhance and reject requests on a few reviews, of valid
\* and of invalid feedback; the text call answers, answers with an empty
\* text, or fails.  Db is the set of outcomes of a datastore write: {TRUE}
\* when the datastore answers every write, BOOLEAN when a write may be
\* rejected.
NextFlow(Db) ==
    \/ \E fb \in {"valid", "invalid"} : SubmitReview("b1", fb, MaxFlowReviews)
    \/ createSubscription("b1", "premium")
    \/ \E bodyBiz \in {Absent, "b2", NoSuchBusiness}, r \in 1..MaxFlowReviews :
            ReqEnhanceReview("p1", "b1", bodyBiz, r, TRUE, TRUE)
    \/ \E r \in 1..MaxFlowReviews : EnhanceReviewHandler("p1", "b1", "b1", r)
    \/ HandlerFind("p1")
    \/ \E ai \in {"text", "", "error"} : Generate("p1", ai)
    \/ \E dbOk \in Db : CreateGeneration("p1", dbOk)
    \/ \E dbOk \in Db : UpdateReview("p1", dbOk)
    \/ \E dbOk \in Db : RecordUsage("p1", dbOk)
    \/ \E r \in 1..MaxFlowReviews : ReqRejectReview("p1", "b1", r)
    \/ \E dbOk \in Db : RejectGeneration("p1", dbOk)
    \/ \E dbOk \in Db : RejectReviewRow("p1", dbOk)

\* a datastore that answers every write
SpecFlow == Init /\ [][NextFlow({TRUE})]_vars

\* a datastore that may reject any write
SpecFault == Init /\ [][NextFlow(BOOLEAN)]_vars

\* Review: one owner's enhance, approve, reject, regenerate and status update
\* requests and the super admin's single and bulk moderation, on a few
\* reviews; the datastore answers every write and the text call answers or
\* fails.
NextReview ==
    \/ SubmitReview("b1", "valid", MaxFlowReviews)
    \/ \E r \in 1..MaxFlowReviews : EnhanceReviewHandler("p1", "b1", "b1", r)
    \/ HandlerFind("p1")
    \/ \E ai \in {"text", "error"} : Generate("p1", ai)
    \/ CreateGeneration("p1", TRUE)
    \/ UpdateReview("p1", TRUE)
    \/ RecordUsage("p1", TRUE)
    \/ \E r \in 1..MaxFlowReviews : ReqApproveReview("p1", "b1", r)
    \/ ApproveGeneration("p1", TRUE)
    \/ ApproveReviewRow("p1", TRUE)
    \/ \E r \in 1..MaxFlowReviews : ReqRejectReview("p1", "b1", r)
    \/ RejectGeneration("p1", TRUE)
    \/ RejectReviewRow("p1", TRUE)
    \/ \E r \in 1..MaxFlowReviews : ReqRegenerateReview("p1", "b1", Absent, r, TRUE, TRUE)
    \/ \E r \in 1..MaxFlowReviews : RegenerateReviewHandler("p1", "b1", "b1", r)
    \/ RegenerateFind("p1")
    \/ RegenerateMark("p1", TRUE)
    \/ \E r \in 1..MaxFlowReviews, status \in ValidStatuses \cup {"FLAGGED"},
          generatedReview \in {Absent, "text"} :
            UpdateReviewStatus("p1", "b1", r, status, generatedReview)
    \/ \E r \in 1..MaxFlowReviews, status \in {"APPROVED", "REJECTED"} :
            moderateReview("p1", r, status)
    \/ \E action \in {"approve", "reject", "flag", "delete"},
          reviewIds \in SUBSET (1..MaxFlowReviews), enumOk \in BOOLEAN :
            bulkModerateReviews("p1", action, reviewIds, enumOk)

SpecReview == Init /\ [][NextReview]_vars

\* Owner: one owner's enhance, approve and reject requests on a few reviews,
\* with the datastore and the text call answering.
NextOwner ==
    \/ SubmitReview("b1", "valid", MaxFlowReviews)
    \/ \E r \in 1..MaxFlowReviews : EnhanceReviewHandler("p1", "b1", "b1", r)
    \/ HandlerFind("p1")
    \/ Generate("p1", "text")
    \/ CreateGeneration("p1", TRUE)
    \/ UpdateReview("p1", TRUE)
    \/ RecordUsage("p1", TRUE)
    \/ \E r \in 1..MaxFlowReviews : ReqApproveReview("p1", "b1", r)
    \/ ApproveGeneration("p1", TRUE)
    \/ ApproveReviewRow("p1", TRUE)
    \/ \E r \in 1..MaxFlowReviews : ReqRejectReview("p1", "b1", r)
    \/ RejectGeneration("p1", TRUE)
    \/ RejectReviewRow("p1", TRUE)

SpecOwner == Init /\ [][NextOwner]_vars

\* Regen: one owner's enhance and regenerate requests on a few reviews, the
\* regenerate route both through its middleware and at its handler, with the
\* datastore answering and the text call answering or failing.
NextRegen ==
    \/ SubmitReview("b1", "valid", MaxFlowReviews)
    \/ \E r \in 1..MaxFlowReviews : EnhanceReviewHandler("p1", "b1", "b1", r)
    \/ HandlerFind("p1")
    \/ \E ai \in {"text", "error"} : Generate("p1", ai)
    \/ CreateGeneration("p1", TRUE)
    \/ UpdateReview("p1", TRUE)
    \/ RecordUsage("p1", TRUE)
    \/ \E r \in 1..MaxFlowReviews : ReqRegenerateReview("p1", "b1", Absent, r, TRUE, TRUE)
    \/ \E r \in 1..MaxFlowReviews : RegenerateReviewHandler("p1", "b1", "b1", r)
    \/ RegenerateFind("p1")
    \/ RegenerateMark("p1", TRUE)

SpecRegen == Init /\ [][NextRegen]_vars

\* Moderation: reviews of two businesses are submitted and the super admin
\* moderates them one at a time and in bulk.
NextModeration ==
    \/ \E b \in Business : SubmitReview(b, "valid", MaxFlowReviews)
    \/ \E r \in 1..MaxFlowReviews, status \in {"APPROVED", "REJECTED"} :
            moderateReview("p1", r, status)
    \/ \E action \in {"approve", "reject", "flag", "delete"},
          reviewIds \in SUBSET (1..MaxFlowReviews), enumOk \in BOOLEAN :
            bulkModerateReviews("p1", action, reviewIds, enumOk)

SpecModeration == Init /\ [][NextModeration]_vars

\* Plan: one business submits reviews, has them enhanced, and takes the free
\* or the paid plan.
NextPlan ==
    \/ SubmitReview("b1", "valid", MaxFlowReviews)
    \/ \E planId \in {"free", "premium"} : Free("p1") /\ createSubscription("b1", planId)
    \/ \E r \in 1..MaxFlowReviews : EnhanceReviewHandler("p1", "b1", "b1", r)
    \/ HandlerFind("p1")
    \/ Generate("p1", "text")
    \/ CreateGeneration("p1", TRUE)
    \/ UpdateReview("p1", TRUE)
    \/ RecordUsage("p1", TRUE)

SpecPlan == Init /\ [][NextPlan]_vars

\* Subscription: one caller creates, cancels and sweeps the subscriptions of
\* two businesses while their end dates pass.
NextSubscription ==
    \/ \E b \in Business \cup {NoSuchBusiness}, planId \in {"free", "premium"} :
            CreateSubscriptionFind("p1", b, planId)
    \/ CreateSubscriptionWrite("p1")
    \/ \E b \in Business : CancelSubscriptionFind("p1", b)
    \/ CancelSubscriptionWrite("p1")
    \/ SweepFind("p1")
    \/ SweepUpdate("p1", TRUE)
    \/ \E b \in Business : Free("p1") /\ EndDatePasses(b)

SpecSubscription == Init /\ [][NextSubscription]_vars

\* UpgradeRace: two callers create, cancel and sweep the subscription of one
\* business at the same time.
NextUpgradeRace ==
    \/ \E p \in Procs, planId \in {"free", "premium"} :
            CreateSubscriptionFind(p, "b1", planId)
    \/ \E p \in Procs : CreateSubscriptionWrite(p)
    \/ \E p \in Procs : CancelSubscriptionFind(p, "b1")
    \/ \E p \in Procs : CancelSubscriptionWrite(p)
    \/ \E p \in Procs : SweepFind(p)
    \/ \E p \in Procs : SweepUpdate(p, TRUE)
    \/ EndDatePasses("b1")

SpecUpgradeRace == Init /\ [][NextUpgradeRace]_vars

\* the ratings sent: -1, 0, 1, 4.5, 5 and 6, in tenths
RatingInputs == {-10, 0, 10, 45, 50, 60}

\* Public: review forms are submitted with and without a customer, for a
\* business that exists or not, with ratings in and out of range and with
\* feedback of either class or none.
NextPublic ==
    \E customer \in {Absent, "b1", "b2"}, b \in {Absent, "b1", NoSuchBusiness},
       rating \in RatingInputs, feedback \in {Absent, "valid", "invalid"} :
            PostPublicReview("p1", customer, b, rating, feedback, MaxFlowReviews)

SpecPublic == Init /\ [][NextPublic]_vars

\* Gate: one owner on either plan sends enhance and regenerate requests
\* through the middleware and asks for the usage of the counted features.
NextGate ==
    \/ SubmitReview("b1", "valid", MaxFlowReviews)
    \/ \E planId \in {"free", "premium"} : Free("p1") /\ createSubscription("b1", planId)
    \/ \E r \in 1..MaxFlowReviews, bodyBiz \in {Absent, "b2"} :
            ReqEnhanceReview("p1", "b1", bodyBiz, r, TRUE, TRUE)
    \/ \E r \in 1..MaxFlowReviews, bodyBiz \in {Absent, "b2"} :
            ReqRegenerateReview("p1", "b1", bodyBiz, r, TRUE, TRUE)
    \/ \E b \in Business, feature \in CheckedFeatures :
            Free("p1") /\ GetUsage(b, feature, TRUE, TRUE)

SpecGate == Init /\ [][NextGate]_vars

\* Usage: one owner submits reviews and has them enhanced at the handler, any
\* write possibly rejected by the datastore, and asks for the usage of the
\* counted features.
NextUsage ==
    \/ SubmitReview("b1", "valid", MaxFlowReviews)
    \/ \E r \in 1..MaxFlowReviews : EnhanceReviewHandler("p1", "b1", "b1", r)
    \/ HandlerFind("p1")
    \/ \E ai \in {"text", "error"} : Generate("p1", ai)
    \/ \E dbOk \in BOOLEAN : CreateGeneration("p1", dbOk)
    \/ \E dbOk \in BOOLEAN : UpdateReview("p1", dbOk)
    \/ \E dbOk \in BOOLEAN : RecordUsage("p1", dbOk)
    \/ \E feature \in CheckedFeatures : Free("p1") /\ GetUsage("b1", feature, TRUE, TRUE)

SpecUsage == Init /\ [][NextUsage]_vars

\* the reviews of the Cap specification: one more than the FREE plan's cap
MaxCapReviews == FreeAiEnhancementsPerMonth + 1

\* POST /enhance-review behind checkSubscriptionLimit(feature): the middleware
\* reads the usage and answers or calls next(); the handler's statements
\* follow as separate steps.
CheckThenEnhance(p, feature, caller, bodyBiz, r) ==
    LET gate == checkSubscriptionLimit(feature, caller, bodyBiz, TRUE, TRUE)
        req == [PIdle EXCEPT !.op = "enhance", !.via = "http", !.rev = r,
                    !.caller = caller, !.biz = gate.businessId,
                    !.used0 = UsedNow(caller), !.ledger0 = LedgerNow(gate.businessId),
                    !.exh = QuotaExhausted(gate.businessId),
                    !.plan = ResolvedPlan(gate.businessId)]
    IN  /\ Free(p)
        /\ Step(p, IF gate.code = "next"
                   THEN [req EXCEPT !.pc = "handler"]
                   ELSE [req EXCEPT !.pc = "done", !.code = gate.code])
        /\ UNCHANGED <<month, reviews, sub, usage, opsAi, opsRev, okReq, raced>>
        /\ UNCHANGED qrVars

\* Cap: two concurrent callers of a business on the FREE plan send enhance
\* requests for its reviews, in the order the reviews were submitted, through
\* the middleware mounted with the route's key and with the catalogue's key;
\* the datastore answers every write and the text call answers.
NextCap ==
    \/ SubmitReview("b1", "valid", MaxCapReviews)
    \/ \E p \in Procs, r \in 1..MaxCapReviews,
          feature \in {RouteFeature, "aiEnhancementsPerMonth"} :
            /\ r \in 1..Len(reviews) /\ ~HasGen(r)
            /\ \A q \in 1..(r - 1) : HasGen(q) \/ \E o \in Procs : proc[o].rev = q
            /\ \A o \in Procs : proc[o].rev # r
            /\ CheckThenEnhance(p, feature, "b1", Absent, r)
    \/ \E p \in Procs : HandlerFind(p)
    \/ \E p \in Procs : Generate(p, "text")
    \/ \E p \in Procs : CreateGeneration(p, TRUE)
    \/ \E p \in Procs : UpdateReview(p, TRUE)
    \/ \E p \in Procs : RecordUsage(p, TRUE)

SpecCap == Init /\ [][NextCap]_vars

\* Entitled: one caller creates, cancels and sweeps the subscriptions of two
\* businesses while their end dates pass, and asks for the usage answer of
\* every catalogued feature.
NextEntitled ==
    \/ \E b \in Business, planId \in {"free", "premium"} :
            CreateSubscriptionFind("p1", b, planId)
    \/ CreateSubscriptionWrite("p1")
    \/ \E b \in Business : CancelSubscriptionFind("p1", b)
    \/ CancelSubscriptionWrite("p1")
    \/ SweepFind("p1")
    \/ SweepUpdate("p1", TRUE)
    \/ \E b \in Business : Free("p1") /\ EndDatePasses(b)
    \/ \E b \in Business, feature \in PlanKeys :
            Free("p1") /\ GetUsage(b, feature, TRUE, TRUE)

SpecEntitled == Init /\ [][NextEntitled]_vars

\* Named: one caller has the reviews of its business enhanced in the order
\* they were submitted, through the service and through the middleware
\* mounted with the route's key and with the catalogue's key, the request
\* naming no business or another one.
NextNamed ==
    \/ SubmitReview("b1", "valid", MaxCapReviews)
    \/ \E r \in 1..MaxCapReviews : ~HasGen(r) /\ NextToEnhance(r) /\ CallEnhanceReview("p1", r)
    \/ \E r \in 1..MaxCapReviews, bodyBiz \in {Absent, "b2"},
          feature \in {RouteFeature, "aiEnhancementsPerMonth"} :
            /\ r \in 1..Len(reviews) /\ ~HasGen(r) /\ NextToEnhance(r)
            /\ CheckThenEnhance("p1", feature, "b1", bodyBiz, r)
    \/ HandlerFind("p1")
    \/ Generate("p1", "text")
    \/ CreateGeneration("p1", TRUE)
    \/ UpdateReview("p1", TRUE)
    \/ RecordUsage("p1", TRUE)

SpecNamed == Init /\ [][NextNamed]_vars

\* the plan ids sent to POST /upgrade: none, the catalogue's keys and ids, and
\* the ids the route's validator names
UpgradeInputs == {Absent, "FREE", "PREMIUM", "premium", "PRO", "ULTIMATE"}

\* Upgrade: callers with and without a business send upgrade requests with
\* every plan id, cancel, and ask for the usage answer, while end dates pass.
NextUpgrade ==
    \/ \E caller \in Business \cup {NoSuchBusiness}, planId \in UpgradeInputs :
            PostUpgrade("p1", caller, planId)
    \/ CreateSubscriptionWrite("p1")
    \/ \E b \in Business : CancelSubscriptionFind("p1", b)
    \/ CancelSubscriptionWrite("p1")
    \/ \E b \in Business : Free("p1") /\ EndDatePasses(b)
    \/ \E b \in Business, feature \in PlanKeys :
            Free("p1") /\ GetUsage(b, feature, TRUE, TRUE)

SpecUpgrade == Init /\ [][NextUpgrade]_vars

\* the request bodies of PUT /:id: each field sent with a value or left out
UpdateInputs ==
    [title : {Absent, "Rate us"},
     backgroundColor : {Absent, "#FFFFFF", "#EEEEEE"},
     foregroundColor : {Absent, "#000000"},
     size : {0, DefaultSize, DefaultSize + 200},
     errorCorrection : {Absent, "M", "H"},
     qrCodeUrl : {Absent, "/review/b2"}]

\* QRUpdate: a code is created and updated with every request body.
NextQRUpdate ==
    \/ CreateQRCode("q1")
    \/ \E updates \in UpdateInputs, dbOk \in BOOLEAN : updateQRCode("q1", updates, dbOk)

SpecQRUpdate == Init /\ [][NextQRUpdate]_vars

\* Confidence: the confidence of enhancements of every shape is computed.
NextConfidence ==
    \E originalWords \in 1..MaxWords, enhancedWords \in 1..(2 * MaxWords + 1),
       period \in BOOLEAN, capital \in BOOLEAN :
            CalculateConfidence(originalWords, enhancedWords, period, capital)

SpecConfidence == Init /\ [][NextConfidence]_vars

\* ============================================================== Claims
Quiescent == \A p \in Procs : proc[p].pc = "idle"

\* C1: for a feature with a numeric monthly cap N (aiEnhancementsPerMonth,
\* reviewsPerMonth on the FREE plan), a usage answer given while no
\* enhancement is in flight reports as used the number of operations that
\* succeeded in the current calendar month; after N of them it denies with
\* used = N, limit = N and remaining = 0; in a month with none yet, used is 0
\* and it allows.
C1_CapDeniesAndMonthResets ==
    LET limit == FeatureLimit(getPlan(lastCheck.plan), lastCheck.feature) IN
    (/\ lastCheck.feature \in CheckedFeatures /\ lastCheck.biz \in Business
     /\ lastCheck.lookupOk /\ lastCheck.countOk /\ Quiescent
     /\ limit.kind = "num" /\ limit.n >= 0)
    => /\ lastCheck.res.used = lastCheck.ops
       /\ lastCheck.ops = limit.n
            => /\ ~lastCheck.res.allowed
               /\ lastCheck.res.limit = limit
               /\ lastCheck.res.remaining = Num(0)
       /\ lastCheck.ops = 0 => (lastCheck.res.used = 0 /\ lastCheck.res.allowed)

\* In the second month the FREE business is denied at exactly 5 enhancements
\* of that month, while generations of the month before exist and are not
\* counted.
C1_Witness ==
    /\ lastCheck.feature = "aiEnhancementsPerMonth" /\ lastCheck.biz = "b1"
    /\ lastCheck.plan = "FREE" /\ lastCheck.lookupOk /\ lastCheck.countOk
    /\ Quiescent /\ lastCheck.month = 1
    /\ lastCheck.ops = FreeAiEnhancementsPerMonth
    /\ ~lastCheck.res.allowed
    /\ lastCheck.res.used = FreeAiEnhancementsPerMonth
    /\ lastCheck.res.remaining = Num(0)
    /\ CountGenerationsAnyMonth("b1", 0) > FreeAiEnhancementsPerMonth

C3_RejectThenEnhanceSucceeds ==
    /\ (lastResp.op = "reject" /\ lastResp.from = "AI_GENERATED" /\ lastResp.code = "200")
            => lastResp.after = "pending-rejected-kept"
    /\ (lastResp.op = "enhance" /\ lastResp.onRej /\ lastResp.ai = "text")
            => /\ lastResp.code = "201"
               /\ reviews[lastResp.rev].status = "AI_GENERATED"

InFlight(q) == \E p \in Procs : tproc[p].pc # "idle" /\ tproc[p].code = q

\* C4: once K concurrent trackScan calls on an existing QR code have all
\* completed (each returned success, none is still in flight), the code's
\* scansCount has grown from 0 by exactly K and exactly K QRScan rows
\* reference it.
C4_ScansCountEqualsCalls ==
    \A q \in QRCodes :
        (qr[q].exists /\ ~InFlight(q) /\ tsFail[q] = 0)
            => (qr[q].scansCount = tsOk[q] /\ qrScans[q] = tsOk[q])

\* Two calls on the same code overlapped between their two writes and both
\* completed.
C4_Witness ==
    \E q \in QRCodes :
        /\ tsRaced /\ tsOk[q] >= 2 /\ tsFail[q] = 0 /\ ~InFlight(q)
        /\ qr[q].scansCount = tsOk[q] /\ qrScans[q] = tsOk[q]

\* C5: in every reachable state the number of QRScan rows of a QR code equals
\* its scansCount.
C5_ScanRowsEqualCounter ==
    \A q \in QRCodes : qrScans[q] = qr[q].scansCount

\* C6: an enhance request for a valid text whose generative-text call fails
\* or answers with an empty text is still answered 201, with a non-empty
\* enhanced text stored and the review AI_GENERATED.
C6_FallbackOnAiFailure ==
    (lastResp.op = "enhance" /\ lastResp.ai \in {"error", ""} /\ ~lastResp.onRej)
        => /\ lastResp.code = "201"
           /\ reviews[lastResp.rev].status = "AI_GENERATED"
           /\ reviews[lastResp.rev].gen.text \notin {"", "none"}

\* C7: a POST /enhance-review of an owner for an own PENDING review without a
\* generation is answered 201 when the month's quota of the business is not
\* used up and the text call does not fail, and is answered 403 only when the
\* quota is used up.
C7_EnhanceAllowedUnlessExhausted ==
    (/\ lastResp.op = "enhance" /\ lastResp.via = "http"
     /\ lastResp.fresh /\ lastResp.biz = lastResp.caller)
    => /\ (~lastResp.exh /\ lastResp.ai \notin {"error", ""}) => lastResp.code = "201"
       /\ lastResp.code = "403" => lastResp.exh

\* C8: when the plan of the business maps aiEnhancementsPerMonth to unlimited,
\* the usage answer for that feature allows, however many enhancements were
\* made and whether or not the usage count can be read.
C8_UnlimitedAlwaysAllowed ==
    (/\ lastCheck.feature = "aiEnhancementsPerMonth" /\ lastCheck.biz \in Business
     /\ lastCheck.lookupOk
     /\ FeatureLimit(getPlan(lastCheck.plan), lastCheck.feature) = Num(Unlimited))
    => lastCheck.res.allowed

\* A PREMIUM business that has made more enhancements this month than the FREE
\* cap is allowed.
C8_Witness ==
    /\ lastCheck.feature = "aiEnhancementsPerMonth" /\ lastCheck.biz = "b1"
    /\ lastCheck.plan = "PREMIUM" /\ lastCheck.lookupOk
    /\ lastCheck.ops > FreeAiEnhancementsPerMonth
    /\ lastCheck.res.allowed

\* C9: a usage answer whose business id names no business, whose business
\* lookup failed or whose usage count failed, does not allow.
C9_FailsClosed ==
    (/\ lastCheck.feature # "none"
     /\ (lastCheck.biz \notin Business \/ ~lastCheck.lookupOk \/ ~lastCheck.countOk))
    => ~lastCheck.res.allowed

\* C10: when an enhance request has been answered, the generations counted as
\* used for the business this month and the count of its ledger row are each
\* one higher than when the request arrived if it was answered 201, and the
\* same as then otherwise.
C10_QuotaFollowsOutcome ==
    lastResp.op = "enhance"
        => IF lastResp.code = "201"
           THEN /\ UsedNow(lastResp.caller) = lastResp.used0 + 1
                /\ LedgerNow(lastResp.biz) = lastResp.ledger0 + 1
           ELSE /\ UsedNow(lastResp.caller) = lastResp.used0
                /\ LedgerNow(lastResp.biz) = lastResp.ledger0

\* ------------------------------------------------------------ review lifecycle

\* C11: over any sequence of review operations (submit, enhance, approve,
\* reject, regenerate, owner status update, single and bulk moderation) every
\* change of a review's status is a documented transition (PENDING to
\* AI_GENERATED, AI_GENERATED to APPROVED, APPROVED to PUBLISHED, AI_GENERATED
\* to PENDING, any status to REJECTED) and the new status is one of the five.
C11_DocumentedTransitions ==
    [][\A r \in 1..Len(reviews) :
         reviews'[r].status # reviews[r].status
            => /\ <<reviews[r].status, reviews'[r].status>>
                    \in {<<"PENDING", "AI_GENERATED">>, <<"AI_GENERATED", "APPROVED">>,
                         <<"APPROVED", "PUBLISHED">>, <<"AI_GENERATED", "PENDING">>}
                            \cup {<<s, "REJECTED">> : s \in ValidStatuses}
               /\ reviews'[r].status \in ValidStatuses]_vars

\* C12: an approve or reject request that is accepted (200) found the review
\* in status AI_GENERATED.
C12_ApproveRejectOnlyFromAiGenerated ==
    (lastResp.op \in {"approve", "reject"} /\ lastResp.code = "200")
        => lastResp.from = "AI_GENERATED"

\* C13: a regenerate request on a review that has a generation, for which the
\* text call answered, is answered 200 with the review AI_GENERATED carrying a
\* new pending enhancement, and one more unit in the usage ledger.
C13_RegenerateReplacesEnhancement ==
    (lastResp.op = "regenerate" /\ lastResp.hadGen /\ lastResp.ai = "text")
        => /\ lastResp.code = "200"
           /\ reviews[lastResp.rev].status = "AI_GENERATED"
           /\ reviews[lastResp.rev].gen.status = "PENDING"
           /\ LedgerNow(lastResp.biz) = lastResp.ledger0 + 1

\* C14: moderation never removes a review row: every review submitted for a
\* business is in that business's export, and a review that bulk DELETE has
\* marked with deletedAt is still in the export and still found by its id.
C14_SoftDeleteKeepsRow ==
    /\ \A b \in Business : Cardinality(exportBusinessData(b)) = opsRev[b]
    /\ \A r \in 1..Len(reviews) :
            reviews[r].deletedAt
                => /\ r \in exportBusinessData(reviews[r].biz)
                   /\ r \in findFirst(reviews[r].biz)

C14_Witness ==
    /\ lastResp.op = "bulk"
    /\ lastResp.code = "200"
    /\ \E r \in 1..Len(reviews) : reviews[r].deletedAt
    /\ \E r \in 1..Len(reviews) : ~reviews[r].deletedAt

\* ---------------------------------------------------------------- entitlement

\* every entitlement answer a business can be given in the current state
Decisions(b) ==
    [limit |-> [f \in PlanKeys \cup {RouteFeature} |-> checkUsageLimit(b, f, TRUE, TRUE)],
     feature |-> [f \in PlanKeys \cup {RouteFeature} |-> requireFeature(b, f)],
     paid |-> requirePaidPlan(b),
     features |-> GetFeatures(b),
     usage |-> GetUsageStats(b)]

\* C15: when a business without a Subscription record is given an ACTIVE FREE
\* subscription, its usage being what it was, every entitlement answer
\* (checkUsageLimit, requireFeature, requirePaidPlan, the features and usage
\* endpoints) is the same after as before.
C15_NoSubscriptionIsFree ==
    [][\A b \in Business :
         (sub[b] = NoSub /\ sub'[b].planId = "FREE" /\ sub'[b].status = "ACTIVE")
            => Decisions(b)' = Decisions(b)]_vars

C15_Witness ==
    /\ sub["b1"].planId = "FREE"
    /\ sub["b1"].status = "ACTIVE"
    /\ CountGenerations("b1", month) > 0
    /\ CountReviews("b1", month) > CountGenerations("b1", month)

\* --------------------------------------------------------------- subscription

\* C16: every change of a subscription's status made by createSubscription,
\* cancelSubscription or the sweep is a step of the documented lifecycle:
\* creation as PENDING or ACTIVE, ACTIVE to CANCELLED, or any status to
\* EXPIRED once the endDate has passed.
C16_StatusFollowsLifecycle ==
    [][\A b \in Business :
         sub'[b].status # sub[b].status
            => \/ sub[b] = NoSub /\ sub'[b].status \in {"PENDING", "ACTIVE"}
               \/ sub[b].status = "ACTIVE" /\ sub'[b].status = "CANCELLED"
               \/ sub[b] # NoSub /\ sub'[b].status = "EXPIRED" /\ sub[b].endPassed]_vars

\* C17: when a sweep has returned, every subscription whose endDate has passed
\* is EXPIRED.
C17_SweepExpiresEveryPastRow ==
    (lastResp.op = "sweep" /\ lastResp.code = "returned")
        => \A b \in Business :
                (sub[b] # NoSub /\ sub[b].endPassed) => sub[b].status = "EXPIRED"

\* C18: every createSubscription call for an existing business returns, the
\* business then having one subscription row.
C18_UpgradeCreatesOrUpdates ==
    (lastResp.op = "upgrade" /\ lastResp.biz \in Business)
        => /\ lastResp.code = "returned"
           /\ sub[lastResp.biz] # NoSub

\* ---------------------------------------------------------- public submission

\* C19: a public submission that is answered 201 carried a rating that is an
\* integer from 1 to 5, and the review it created is PENDING; any other answer
\* leaves the reviews as they were.
C19_OnlyValidRatingCreates ==
    (lastResp.op = "public" /\ lastResp.code = "201")
        => /\ lastResp.rating \in {10, 20, 30, 40, 50}
           /\ reviews[lastResp.rev].status = "PENDING"

\* C20: the feature key the middleware of an enhance or regenerate request
\* hands to the entitlement check, and every key a usage answer was asked for,
\* is a key of the feature map of the plan it was resolved against: the limit
\* is never undefined.
C20_CallSiteKeysAreCatalogued ==
    /\ (lastResp.via = "http" /\ lastResp.op \in {"enhance", "regenerate"})
            => FeatureLimit(getPlan(lastResp.plan), RouteFeature) # Undefined
    /\ lastCheck.feature # "none"
            => FeatureLimit(getPlan(lastCheck.plan), lastCheck.feature) # Undefined

\* ------------------------------------------------------------- usage and ledger

\* C21: for a feature with a numeric cap, the used value of a usage answer
\* given while no request is in flight equals the count of the business's
\* usage ledger row for the month and the feature.
C21_UsedEqualsLedger ==
    (/\ lastCheck.feature \in CheckedFeatures /\ lastCheck.biz \in Business
     /\ lastCheck.lookupOk /\ lastCheck.countOk /\ Quiescent
     /\ FeatureLimit(getPlan(lastCheck.plan), lastCheck.feature).kind = "num")
    => lastCheck.res.used = UsageRecordCount(lastCheck.biz, lastCheck.feature)

\* C22: a review carries a non-empty generatedReview only if it has an
\* AIGeneration record.
C22_GeneratedReviewNeedsGeneration ==
    \A r \in 1..Len(reviews) :
        reviews[r].generatedReview \notin {"none", ""} => HasGen(r)

\* C23: a moderation request that is answered 200, single or bulk, has written
\* the moderator's identity and the moderation time on the reviews it names.
C23_ModerationStampsModerator ==
    (lastResp.op \in {"moderate", "bulk"} /\ lastResp.code = "200"
        /\ lastResp.ids # {})
        => {"moderatedBy", "moderatedAt"} \subseteq lastResp.wrote

\* ------------------------------------------------------------------ QR update

\* C24: an updateQRCode call that returns has called the renderer exactly when
\* a visual field of the row (backgroundColor, foregroundColor, size,
\* errorCorrection) changed; when none changed the stored image is as it was,
\* when one changed the image is the rendering of the row's url with the new
\* options; the row's qrCodeUrl is as it was in both cases.
C24_RenderIffVisualChange ==
    [][(lastResp'.op = "qrUpdate" /\ lastResp'.code = "returned")
        => \A q \in QRCodes :
            LET visual == \/ qr'[q].backgroundColor # qr[q].backgroundColor
                          \/ qr'[q].foregroundColor # qr[q].foregroundColor
                          \/ qr'[q].size # qr[q].size
                          \/ qr'[q].errorCorrection # qr[q].errorCorrection
            IN  /\ visual => lastResp'.rendered
                /\ visual => qr'[q].qrImageUrl = generateQRCode(qr[q].qrCodeUrl, qr'[q])
                /\ ~visual => qr'[q].qrImageUrl = qr[q].qrImageUrl
                /\ (lastResp'.rendered /\ qr'[q] # qr[q]) => visual
                /\ qr'[q].qrCodeUrl = qr[q].qrCodeUrl]_vars

\* ------------------------------------------------------------------ confidence

\* C25, as stated: the confidence is 0.7, plus 0.1 when the enhanced text's
\* length is from 1 to 2 times the original's, both bounds included, plus 0.1
\* when the enhanced text is capitalized and punctuated, capped at 1.0.
C25_BonusBoundsIncluded ==
    lastResp.op = "confidence"
        => LET c == lastResp.calc IN
           c.confidence = Min(ConfidenceCap,
                BaseConfidence
                + (IF c.originalWords <= c.enhancedWords
                        /\ c.enhancedWords <= 2 * c.originalWords THEN 1 ELSE 0)
                + (IF c.period /\ c.capital THEN 1 ELSE 0))

\* C25, amended: the confidence is 0.7, plus 0.1 when the enhanced text has
\* more words than the original and at most twice as many, plus 0.1 when it
\* includes a period and starts with a character that is its own upper case;
\* it lies between 0.0 and 1.0.
C25_ConfidenceOfEnhancement ==
    lastResp.op = "confidence"
        => LET c == lastResp.calc IN
           /\ c.confidence = BaseConfidence
                + (IF c.originalWords < c.enhancedWords
                        /\ c.enhancedWords <= 2 * c.originalWords THEN 1 ELSE 0)
                + (IF c.period /\ c.capital THEN 1 ELSE 0)
           /\ c.confidence >= 0 /\ c.confidence <= ConfidenceCap

\* an enhancement of twice the original's words, capitalized and punctuated,
\* gets both bonuses
C25_Witness ==
    /\ lastResp.op = "confidence"
    /\ lastResp.calc.enhancedWords = 2 * lastResp.calc.originalWords
    /\ lastResp.calc.period /\ lastResp.calc.capital
    /\ lastResp.calc.confidence = BaseConfidence + 2 * ConfidenceBonus


C27_PaidOnlyWhileUsable ==
    \A b \in Business :
        (/\ sub[b] # NoSub
         /\ sub[b].planId = "PREMIUM"
         /\ ~(\/ sub[b].status = "ACTIVE"
              \/ sub[b].status = "CANCELLED" /\ ~sub[b].endPassed))
        => /\ (lastCheck.biz = b /\ lastCheck.feature \in PlanKeys)
                => lastCheck.res = checkFeatureLimit("FREE", lastCheck.feature, b, TRUE)
           /\ \A f \in PlanKeys :
                requireFeature(b, f)
                    = IF Falsy(FeatureLimit(getPlan("FREE"), f)) THEN "403" ELSE "next"

C29_FailedRegenerateRestores ==
    (lastResp.op = "regenerate" /\ lastResp.code = "500" /\ lastResp.before # NoBefore)
        => /\ reviews[lastResp.rev].gen.status = lastResp.before.gen.status
           /\ reviews[lastResp.rev].status = lastResp.before.status
           /\ reviews[lastResp.rev].generatedReview = lastResp.before.generatedReview

\* C30: when POST /upgrade answers success for the requested plan id P, the
\* business's subscription row has planId P and checkUsageLimit applies the
\* limits of P.
C30_UpgradePersistsRequestedPlan ==
    (lastResp.op = "upgrade" /\ lastResp.via = "http" /\ lastResp.code = "200")
        => /\ sub[lastResp.biz].planId = lastResp.plan
           /\ \A f \in PlanKeys :
                checkUsageLimit(lastResp.biz, f, TRUE, TRUE)
                    = checkFeatureLimit(lastResp.plan, f, lastResp.biz, TRUE)

============================================================================
